---- MODULE Spec2Model ----
(***************************************************************************)
(* A model of the three Freshservice scripts of the repository:            *)
(*   contract_assets.py                  (the contract-assets CSV run),    *)
(*   freshservice_hrms_termination.py    (the HRMS termination run),       *)
(*   term_ticket_assets_note.py          (the asset note run).             *)
(* Each script is a sequential program; the HTTP services and the HRMS are *)
(* the environment, whose answers are chosen nondeterministically at the   *)
(* moment a call is issued.  An HTTP call is modelled as returning a       *)
(* response with a status; a call raises only where the code handles that  *)
(* (requests.put in update_ticket_with_attachment) or where the code       *)
(* itself raises (raise_for_status, a failed lookup, a missing key).       *)
(* JSON scalars (ids, names, tags) are strings; None is Python's None, a   *)
(* JSON null and the result of .get() on a missing key.                    *)
(***************************************************************************)
EXTENDS Naturals, Integers, Sequences, FiniteSets, TLC

VARIABLES
    \* ---- contract_assets.py
    c_pc,             \* position of the script: fetch, csv, rows, update, done, crashed
    page,             \* line 86
    all_assets,       \* line 85
    dept_cache,       \* line 103
    location_cache,   \* line 104
    requester_cache,  \* line 105
    csv_exists,       \* whether the file csv_file_path is on disk
    csv_rows,         \* the rows written to csv_file_path
    idx,              \* index in all_assets of the asset the loop of line 163 is at
    c_calls,          \* every HTTP call of the run, in order, with the answer
    put_fields,       \* the multipart fields of the PUT (lines 201-208)
    server,           \* what the Freshservice server holds and may answer
    \* ---- freshservice_hrms_termination.py
    t_pc,             \* the function (or line of main) the run is in; done; crashed
    t_entry,          \* what was invoked: main (the script) or one function
    t_calls,          \* every HTTP call of the run, in order, with its status
    t_result,         \* what the function invoked returned or raised
    description_text, \* main, line 293
    employee_id,      \* main, line 296
    response_dict,    \* the parsed HRMS report (lines 128, 305)
    employee_data,    \* the first row of the report (lines 153, 306)
    email,            \* the argument of fetch_requester_info (line 165)
    requester_id,     \* lines 186, 200, 315
    manager_id,       \* lines 187, 201, 315
    user_type,        \* lines 188, 202, 315
    manager_email,    \* lines 224, 233, 320
    it_deactivation_date, \* line 310
    service_request_data, \* the body of the place_request POST (lines 253-261)
    \* ---- term_ticket_assets_note.py
    n_pc,             \* position of main: main, fetch_assets, asset_types, note,
                      \* put, done, crashed
    n_calls,          \* every HTTP call of the run, in order
    employee_name,    \* line 112
    assets,           \* the assets of the answer of line 118
    assets_list,      \* line 120
    html_body,        \* line 129
    payload,          \* the body of the PUT (lines 95-99)
    ticket_assets     \* the display ids the ticket is linked to on the server

cvars == <<c_pc, page, all_assets, dept_cache, location_cache, requester_cache,
           csv_exists, csv_rows, idx, c_calls, put_fields, server>>

tvars == <<t_pc, t_entry, t_calls, t_result, description_text, employee_id,
           response_dict, employee_data, email, requester_id, manager_id,
           user_type, manager_email, it_deactivation_date, service_request_data>>

nvars == <<n_pc, n_calls, employee_name, assets, assets_list, html_body, payload,
           ticket_assets>>

vars == <<cvars, tvars, nvars>>

None == "None"

\* The empty string taken for a value.
Truthy_only_none(v) == v # None

\* Python truthiness of an optional id or string: None and "" are falsy.
Truthy(v) == v # None /\ v # ""

\* ------------------------------------------------------------------ bounds
\* The contract holds at most MaxAssets assets, of which the server returns at
\* most MaxPageLen on a page (it may return fewer than the per_page asked for).
MaxAssets == 2
MaxPageLen == 2
\* The contract of the two-page scenario holds ScenarioAssets assets.
ScenarioAssets == 140

\* Line 87.
per_page == 100

\* ------------------------------------------------------------ environment
DeptIds == {"11", "12"}
LocIds == {"21"}
UserIds == {"31"}

\* A server that answers anything: any status, pages of any length up to
\* MaxPageLen, assets with any foreign keys.
AnyServer ==
    [total |-> MaxAssets, page_lens |-> 0..MaxPageLen, statuses |-> {200, 500},
     dept_ids |-> DeptIds \cup {None}, loc_ids |-> LocIds \cup {None},
     user_ids |-> UserIds \cup {None}]

\* The server of the two-page scenario: every call succeeds, every page is as
\* long as per_page allows, no asset carries a foreign key.
ScenarioServer ==
    [total |-> ScenarioAssets, page_lens |-> {per_page}, statuses |-> {200},
     dept_ids |-> {None}, loc_ids |-> {None}, user_ids |-> {None}]

\* The n-th asset of the contract as the list endpoint returns it; a foreign
\* key may be null.
AssetsNumbered(n) ==
    { [display_id |-> ToString(n), asset_tag |-> "TAG-" \o ToString(n),
       name |-> "Asset " \o ToString(n),
       department_id |-> d, location_id |-> l, user_id |-> u] :
      d \in server.dept_ids, l \in server.loc_ids, u \in server.user_ids }

RECURSIVE AssetPages(_, _)
\* The arrays of k assets the server may return after `served` assets.
AssetPages(served, k) ==
    IF k = 0 THEN { <<>> }
    ELSE { <<a>> \o rest : a \in AssetsNumbered(served + 1),
                           rest \in AssetPages(served + 1, k - 1) }

Min(a, b) == IF a < b THEN a ELSE b

\* The answers of GET /contracts/37/associated-assets?page=..&per_page=..: an
\* error status (whose body holds no associated_assets), or 200 with the next
\* assets of the contract, as many as one of the server's page lengths allows.
PageResponses(served) ==
    { [status |-> s, assets |-> <<>>] : s \in server.statuses \ {200} } \cup
    { [status |-> 200, assets |-> as] :
      as \in UNION { AssetPages(served, Min(n, server.total - served)) :
                     n \in server.page_lens } }

\* The answers of GET /departments/{id} and GET /locations/{id}.
NameResponses(id) ==
    { [status |-> s, name |-> IF s = 200 THEN "Name-" \o id ELSE None] :
      s \in server.statuses }

\* The answers of GET /requesters/{id}; last_name may be a JSON null.
RequesterResponses ==
    { [status |-> s, first_name |-> "", last_name |-> ""] :
      s \in server.statuses \ {200} } \cup
    { [status |-> 200, first_name |-> f, last_name |-> l] :
      f \in {"", "Ann"}, l \in {"", None} }

\* The outcomes of requests.put (line 222): a response, or an exception.
PutOutcomes ==
    { [raised |-> FALSE, status |-> s] : s \in {200, 201, 500} } \cup
    { [raised |-> TRUE, status |-> 0] }

Call(name, p, id, status, raised, page_assets) ==
    [call |-> name, page |-> p, id |-> id, status |-> status, raised |-> raised,
     assets |-> page_assets]

Header == <<"display_id", "asset_tag", "name", "department", "location", "requester">>

\* -------------------------------------------------------- contract_assets.py

InitRun ==
    /\ c_pc = "fetch"
    /\ page = 1
    /\ all_assets = <<>>
    /\ dept_cache = <<>>
    /\ location_cache = <<>>
    /\ requester_cache = <<>>
    /\ csv_exists = FALSE
    /\ csv_rows = <<>>
    /\ idx = 0
    /\ c_calls = <<>>
    /\ put_fields = None

\* The termination script is not running.
IdleTermination ==
    /\ t_pc = "idle"
    /\ t_entry = "none"
    /\ t_calls = <<>>
    /\ t_result = <<>>
    /\ description_text = <<>>
    /\ employee_id = None
    /\ response_dict = <<>>
    /\ employee_data = <<>>
    /\ email = None
    /\ requester_id = None
    /\ manager_id = None
    /\ user_type = None
    /\ manager_email = None
    /\ it_deactivation_date = <<>>
    /\ service_request_data = <<>>

\* The note script is not running.
IdleNote ==
    /\ n_pc = "idle"
    /\ n_calls = <<>>
    /\ employee_name = None
    /\ assets = <<>>
    /\ assets_list = <<>>
    /\ html_body = None
    /\ payload = <<>>
    /\ ticket_assets = {}

InitContract == InitRun /\ server = AnyServer /\ IdleTermination /\ IdleNote

InitScenario == InitRun /\ server = ScenarioServer /\ IdleTermination /\ IdleNote

\* An error page skipped instead of ending the loop.
pagination_continues_on_error(r) == r.status # 200 \/ r.assets # <<>>

\* The loop ended by a page shorter than per_page.
pagination_continues_while_full(r) ==
    r.status = 200 /\ r.assets # <<>> /\ Len(r.assets) >= per_page

\* Lines 92-98: the loop goes on to the next page after a 200 answer with a
\* non-empty associated_assets array, and stops otherwise.
pagination_continues(r) == r.status = 200 /\ r.assets # <<>>

\* Lines 89-100: one turn of the pagination loop.
fetch_assets_page ==
    /\ c_pc = "fetch"
    /\ \E r \in PageResponses(Len(all_assets)) :
         /\ c_calls' = Append(c_calls,
                Call("GET associated-assets", page, None, r.status, FALSE, r.assets))
         /\ IF pagination_continues(r)
            THEN /\ all_assets' = all_assets \o r.assets
                 /\ page' = page + 1
                 /\ c_pc' = "fetch"
            ELSE /\ c_pc' = "csv"
                 /\ UNCHANGED <<page, all_assets>>
    /\ UNCHANGED <<dept_cache, location_cache, requester_cache, csv_exists,
                   csv_rows, idx, put_fields, server>>
    /\ UNCHANGED <<tvars, nvars>>

\* get_department_name without its cache lookup.
get_department_name_uncached(dept_id, r) ==
    IF ~Truthy(dept_id)
    THEN [ret |-> None, cache |-> dept_cache, calls |-> <<>>]
    ELSE IF r.status = 200
    THEN [ret |-> r.name,
          cache |-> [i \in DOMAIN dept_cache \cup {dept_id} |-> r.name],
          calls |-> <<Call("GET department", 0, dept_id, r.status, FALSE, <<>>)>>]
    ELSE [ret |-> None, cache |-> dept_cache,
          calls |-> <<Call("GET department", 0, dept_id, r.status, FALSE, <<>>)>>]

\* Lines 107-120.  r is the server's answer to GET /departments/{dept_id},
\* consumed only when the GET is issued.  The result: the value returned, the
\* cache afterwards, and the HTTP calls made.
get_department_name(dept_id, r) ==
    IF ~Truthy(dept_id)
    THEN [ret |-> None, cache |-> dept_cache, calls |-> <<>>]
    ELSE IF dept_id \in DOMAIN dept_cache
    THEN [ret |-> dept_cache[dept_id], cache |-> dept_cache, calls |-> <<>>]
    ELSE IF r.status = 200
    THEN [ret |-> r.name, cache |-> dept_cache @@ (dept_id :> r.name),
          calls |-> <<Call("GET department", 0, dept_id, r.status, FALSE, <<>>)>>]
    ELSE [ret |-> None, cache |-> dept_cache,
          calls |-> <<Call("GET department", 0, dept_id, r.status, FALSE, <<>>)>>]

\* get_location_name storing the failed lookup in its cache.
get_location_name_negative_caching(loc_id, r) ==
    IF ~Truthy(loc_id)
    THEN [ret |-> None, cache |-> location_cache, calls |-> <<>>]
    ELSE IF loc_id \in DOMAIN location_cache
    THEN [ret |-> location_cache[loc_id], cache |-> location_cache, calls |-> <<>>]
    ELSE [ret |-> r.name, cache |-> location_cache @@ (loc_id :> r.name),
          calls |-> <<Call("GET location", 0, loc_id, r.status, FALSE, <<>>)>>]

\* Lines 122-135.
get_location_name(loc_id, r) ==
    IF ~Truthy(loc_id)
    THEN [ret |-> None, cache |-> location_cache, calls |-> <<>>]
    ELSE IF loc_id \in DOMAIN location_cache
    THEN [ret |-> location_cache[loc_id], cache |-> location_cache, calls |-> <<>>]
    ELSE IF r.status = 200
    THEN [ret |-> r.name, cache |-> location_cache @@ (loc_id :> r.name),
          calls |-> <<Call("GET location", 0, loc_id, r.status, FALSE, <<>>)>>]
    ELSE [ret |-> None, cache |-> location_cache,
          calls |-> <<Call("GET location", 0, loc_id, r.status, FALSE, <<>>)>>]

\* Line 148: f"{first_name} {last_name}".strip() if first_name or last_name
\* else None, for names that carry no white space of their own.
requester_full_name(first_name, last_name) ==
    IF first_name # "" \/ last_name # ""
    THEN IF first_name = "" THEN last_name
         ELSE IF last_name = "" THEN first_name
         ELSE first_name \o " " \o last_name
    ELSE None

\* Lines 137-153.  raised: .strip() on a first_name or last_name that is a
\* JSON null raises AttributeError (lines 146-147), which nothing catches.
get_requester_name(user_id, r) ==
    IF ~Truthy(user_id)
    THEN [ret |-> None, cache |-> requester_cache, calls |-> <<>>, raised |-> FALSE]
    ELSE IF user_id \in DOMAIN requester_cache
    THEN [ret |-> requester_cache[user_id], cache |-> requester_cache,
          calls |-> <<>>, raised |-> FALSE]
    ELSE IF r.status = 200
    THEN IF r.first_name = None \/ r.last_name = None
         THEN [ret |-> None, cache |-> requester_cache, raised |-> TRUE,
               calls |-> <<Call("GET requester", 0, user_id, r.status, FALSE, <<>>)>>]
         ELSE [ret |-> requester_full_name(r.first_name, r.last_name),
               cache |-> requester_cache @@
                   (user_id :> requester_full_name(r.first_name, r.last_name)),
               raised |-> FALSE,
               calls |-> <<Call("GET requester", 0, user_id, r.status, FALSE, <<>>)>>]
    ELSE [ret |-> None, cache |-> requester_cache, raised |-> FALSE,
          calls |-> <<Call("GET requester", 0, user_id, r.status, FALSE, <<>>)>>]

\* Lines 156-161: the file is created (or truncated) and the header written.
create_csv ==
    /\ c_pc = "csv"
    /\ csv_exists' = TRUE
    /\ csv_rows' = <<Header>>
    /\ idx' = 1
    /\ c_pc' = IF all_assets = <<>> THEN "update" ELSE "rows"
    /\ UNCHANGED <<page, all_assets, dept_cache, location_cache, requester_cache,
                   c_calls, put_fields, server>>
    /\ UNCHANGED <<tvars, nvars>>

\* The row with the department and location columns exchanged.
csv_row_swapped(asset, dept_name, loc_name, requester_name) ==
    <<asset.display_id, asset.asset_tag, asset.name, loc_name, dept_name,
      requester_name>>

\* Line 176: the row of an asset.
csv_row(asset, dept_name, loc_name, requester_name) ==
    <<asset.display_id, asset.asset_tag, asset.name, dept_name, loc_name,
      requester_name>>

\* Lines 163-176: one turn of the loop over all_assets; the with block of
\* line 159 ends (the file is closed) after the last asset or on an exception.
write_asset_row ==
    /\ c_pc = "rows"
    /\ LET asset == all_assets[idx]
           dept_id == asset.department_id
           loc_id == asset.location_id
           user_id == asset.user_id
       IN \E rd \in NameResponses(dept_id), rl \in NameResponses(loc_id),
             ru \in RequesterResponses :
            LET d == IF Truthy(dept_id) THEN get_department_name(dept_id, rd)
                     ELSE [ret |-> None, cache |-> dept_cache, calls |-> <<>>]
                l == IF Truthy(loc_id) THEN get_location_name(loc_id, rl)
                     ELSE [ret |-> None, cache |-> location_cache, calls |-> <<>>]
                u == IF Truthy(user_id) THEN get_requester_name(user_id, ru)
                     ELSE [ret |-> None, cache |-> requester_cache, calls |-> <<>>,
                           raised |-> FALSE]
            IN /\ dept_cache' = d.cache
               /\ location_cache' = l.cache
               /\ requester_cache' = u.cache
               /\ c_calls' = c_calls \o d.calls \o l.calls \o u.calls
               /\ IF u.raised
                  THEN /\ c_pc' = "crashed"
                       /\ UNCHANGED <<csv_rows, idx>>
                  ELSE /\ csv_rows' = Append(csv_rows,
                              csv_row(asset, d.ret, l.ret, u.ret))
                       /\ idx' = idx + 1
                       /\ c_pc' = IF idx = Len(all_assets) THEN "update" ELSE "rows"
    /\ UNCHANGED <<page, all_assets, csv_exists, put_fields, server>>
    /\ UNCHANGED <<tvars, nvars>>

\* Only 200 taken for a success.
put_succeeded_only_200(status) == status = 200

\* Line 230: the status codes after which the file is deleted.
put_succeeded(status) == status \in {200, 201}

\* Lines 183-239 (called at line 243).  out is what requests.put does.  The
\* file system is this process's alone: reading or removing the file fails
\* only when the file is not there.
update_ticket_with_attachment ==
    /\ c_pc = "update"
    /\ \E out \in PutOutcomes :
         IF ~csv_exists
         THEN UNCHANGED <<c_calls, put_fields, csv_exists>>   \* lines 196-198
         ELSE /\ put_fields' = [priority |-> "1", attachment |-> csv_rows,
                                content_type |-> "application/octet-stream"]
              /\ c_calls' = Append(c_calls,
                     Call("PUT ticket", 0, None, out.status, out.raised, <<>>))
              /\ IF out.raised
                 THEN UNCHANGED csv_exists
                 ELSE IF put_succeeded(out.status)
                 THEN csv_exists' = FALSE      \* os.remove (line 234)
                 ELSE UNCHANGED csv_exists
    /\ c_pc' = "done"
    /\ UNCHANGED <<page, all_assets, dept_cache, location_cache, requester_cache,
                   csv_rows, idx, server>>
    /\ UNCHANGED <<tvars, nvars>>

NextContract ==
    \/ fetch_assets_page
    \/ create_csv
    \/ write_asset_row
    \/ update_ticket_with_attachment

SpecContract == InitContract /\ [][NextContract]_vars

SpecScenario == InitScenario /\ [][NextContract]_vars


\* ------------------------------------------ freshservice_hrms_termination.py

\* The contract script is not running.
IdleContract ==
    /\ c_pc = "idle"
    /\ page = 1
    /\ all_assets = <<>>
    /\ dept_cache = <<>>
    /\ location_cache = <<>>
    /\ requester_cache = <<>>
    /\ csv_exists = FALSE
    /\ csv_rows = <<>>
    /\ idx = 0
    /\ c_calls = <<>>
    /\ put_fields = None
    /\ server = AnyServer

\* The statuses the Freshservice and HRMS endpoints answer with; the by-id
\* lookups of a manager may also answer a 2xx that is not 200.
TStatuses == {200, 404, 500}
ManagerStatuses == {200, 204, 404, 500}

\* response.raise_for_status() raises HTTPError for a 4xx or 5xx status.
raise_for_status(status) == status >= 400 /\ status < 600

TCall(name, arg, status, found) ==
    [call |-> name, arg |-> arg, status |-> status, found |-> found]

\* What a function hands back: a value, or an exception.  caught: the
\* exception main printed before it returned.
Returned(v) == [raised |-> "", value |-> v, caught |-> ""]
Raised(e) == [raised |-> e, value |-> None, caught |-> ""]
MainEnded(e) == [raised |-> "", value |-> None, caught |-> e]

\* The names bound at module level (lines 45-285); Python names are case
\* sensitive.
ModuleNames ==
    {"get_headers", "fetch_ticket_data", "extract_employee_id", "convert_date_format",
     "login_hrms", "fetch_employee_data", "process_employee_data",
     "fetch_requester_info", "fetch_manager_email", "create_service_request", "main"}

\* A description is a sequence of tokens: the literal "Employee ID:", a run of
\* white space, a run of digits, or any other word.
WhiteSpace == {" ", "  "}
DigitRuns == {"1234", "77"}
Descriptions ==
    { <<"Name:", " ", "Ann", "  ", "Employee ID:", " ", "1234">>,
      <<"Employee ID:", "77">>,
      <<"Employee ID:", " ", "n/a", " ", "Employee ID:", "  ", "77">>,
      <<"Employee", " ", "1234">>,
      <<"employee id:", " ", "1234">>,
      <<>> }

\* Where the digits of r"Employee ID:\s*(\d+)" are, for a match that starts at
\* token i; 0 when there is no match at i.
DigitsAt(text, i) ==
    IF text[i] # "Employee ID:" THEN 0
    ELSE IF i + 1 <= Len(text) /\ text[i + 1] \in DigitRuns THEN i + 1
    ELSE IF /\ i + 2 <= Len(text)
            /\ text[i + 1] \in WhiteSpace
            /\ text[i + 2] \in DigitRuns THEN i + 2
    ELSE 0

\* Lines 72-78.
extract_employee_id(text) ==
    LET matches == { i \in 1..Len(text) : DigitsAt(text, i) # 0 }
    IN IF matches = {} THEN Raised("ValueError")
       ELSE LET first == CHOOSE i \in matches : \A j \in matches : i <= j
            IN Returned(text[DigitsAt(text, first)])

\* A date string is a sequence of characters.
DigitChars == <<"0", "1", "2", "3", "4", "5", "6", "7", "8", "9">>
IsDigit(c) == \E i \in 1..Len(DigitChars) : DigitChars[i] = c
DigitVal(c) == (CHOOSE i \in 1..Len(DigitChars) : DigitChars[i] = c) - 1

RECURSIVE NumVal(_)
NumVal(s) == IF s = <<>> THEN 0
             ELSE 10 * NumVal(SubSeq(s, 1, Len(s) - 1)) + DigitVal(s[Len(s)])

AllDigits(s) == \A i \in 1..Len(s) : IsDigit(s[i])

RECURSIVE strip(_)
\* str.strip() (line 82).
strip(s) ==
    IF s = <<>> THEN s
    ELSE IF s[1] = " " THEN strip(Tail(s))
    ELSE IF s[Len(s)] = " " THEN strip(SubSeq(s, 1, Len(s) - 1))
    ELSE s

IsLeap(y) == (y % 4 = 0 /\ y % 100 # 0) \/ y % 400 = 0
DaysIn(m, y) == IF m = 2 THEN (IF IsLeap(y) THEN 29 ELSE 28)
                ELSE IF m \in {4, 6, 9, 11} THEN 30 ELSE 31

Pad(n, width) == [i \in 1..width |-> DigitChars[((n \div (10 ^ (width - i))) % 10) + 1]]

\* datetime.strptime(date_str, "%m/%d/%Y"): the month, day and year fields, or
\* <<>> when the string does not match or names no day of the calendar.
strptime(s) ==
    LET slashes == { i \in 1..Len(s) : s[i] = "/" }
    IN IF Cardinality(slashes) # 2 THEN <<>>
       ELSE LET i1 == CHOOSE i \in slashes : \A j \in slashes : i <= j
                i2 == CHOOSE i \in slashes : \A j \in slashes : i >= j
                mm == SubSeq(s, 1, i1 - 1)
                dd == SubSeq(s, i1 + 1, i2 - 1)
                yy == SubSeq(s, i2 + 1, Len(s))
            IN IF /\ AllDigits(mm) /\ Len(mm) \in 1..2 /\ NumVal(mm) \in 1..12
                  /\ AllDigits(yy) /\ Len(yy) = 4 /\ NumVal(yy) >= 1
                  /\ AllDigits(dd) /\ Len(dd) \in 1..2
                  /\ NumVal(dd) \in 1..DaysIn(NumVal(mm), NumVal(yy))
               THEN <<NumVal(mm), NumVal(dd), NumVal(yy)>>
               ELSE <<>>

\* Lines 80-87: MM/DD/YYYY to YYYY-MM-DD, ValueError otherwise.
convert_date_format(date_str) ==
    LET d == strptime(strip(date_str))
    IN IF d = <<>> THEN Raised("ValueError")
       ELSE Returned(Pad(d[3], 4) \o <<"-">> \o Pad(d[1], 2) \o <<"-">> \o Pad(d[2], 2))

DateFields == <<"Effective Date", "Date Hired", "Date Started", "IT Deactivation Date">>

D_0314 == <<"0", "3", "/", "1", "4", "/", "2", "0", "2", "4">>
D_padded == <<" ", "3", "/", "4", "/", "2", "0", "2", "4", " ">>
D_iso == <<"2", "0", "2", "4", "-", "0", "3", "-", "1", "4">>
D_feb30 == <<"0", "2", "/", "3", "0", "/", "2", "0", "2", "4">>

\* The rows of the HRMS report, by normalised column label; an empty cell is
\* <<>>.
ReportRows ==
    { [f \in {"Effective Date", "Date Hired", "Date Started", "IT Deactivation Date",
              "Primary Email"} |->
         IF f = "Effective Date" THEN e
         ELSE IF f = "Date Hired" THEN h
         ELSE IF f = "Date Started" THEN D_0314
         ELSE IF f = "IT Deactivation Date" THEN d
         ELSE "Ann@Corp.com"] :
      e \in {<<>>, D_0314, D_iso}, h \in {<<>>, D_padded},
      d \in {<<>>, D_0314, D_iso, D_feb30} }

OtherRow ==
    [f \in {"Effective Date", "Date Hired", "Date Started", "IT Deactivation Date",
            "Primary Email"} |-> IF f = "Primary Email" THEN "bob@corp.com" ELSE <<>>]

\* The parsed report: one row, or several for one employee id.
ReportBodies == { <<r>> : r \in ReportRows } \cup { <<r, OtherRow>> : r \in ReportRows }

ReportResponses ==
    { [status |-> s, has_result |-> FALSE, rows |-> <<>>] : s \in TStatuses } \cup
    { [status |-> 200, has_result |-> TRUE, rows |-> b] : b \in ReportBodies }

Emails == {"Ann@Corp.com", "bob@corp.com"}

\* str.lower() (line 169) on the addresses of the model.
lower(e) == IF e = "Ann@Corp.com" THEN "ann@corp.com" ELSE e

\* The people a search returns.
People == { [id |-> i, reporting_manager_id |-> m] : i \in {"501", "502"}, m \in {None, "900"} }

RECURSIVE PersonLists(_)
PersonLists(n) ==
    IF n = 0 THEN { <<>> }
    ELSE PersonLists(n - 1) \cup
         { Append(l, q) : l \in { x \in PersonLists(n - 1) : Len(x) = n - 1 }, q \in People }

\* A search answers at most MaxFound people.
MaxFound == 2

SearchResponses ==
    { [status |-> s, found |-> <<>>] : s \in TStatuses \ {200} } \cup
    { [status |-> 200, found |-> l] : l \in PersonLists(MaxFound) }

RequesterEmail(id) == "requester-" \o id \o "@corp.com"
AgentEmail(id) == "agent-" \o id \o "@corp.com"

\* main going on to the service request although nobody was found.
main_next_files_without_requester(fn, o) ==
    IF fn = "login_hrms"
    THEN IF o.raised # "" THEN "done" ELSE "fetch_employee_data"
    ELSE IF fn = "fetch_employee_data"
    THEN IF o.raised # "" THEN "done" ELSE "process_employee_data"
    ELSE IF fn = "process_employee_data"
    THEN IF o.raised # "" THEN "done" ELSE "fetch_requester_info"
    ELSE IF fn = "fetch_requester_info"
    THEN IF o.raised # "" THEN "create_service_request"
         ELSE IF Truthy(o.value[2]) THEN "fetch_manager_email"
         ELSE "create_service_request"
    ELSE IF fn = "fetch_manager_email"
    THEN "create_service_request"
    ELSE "done"

\* Lines 302-351: where main goes on after the call of fn handed back o.
main_next(fn, o) ==
    IF fn = "login_hrms"
    THEN IF o.raised # "" THEN "done" ELSE "fetch_employee_data"
    ELSE IF fn = "fetch_employee_data"
    THEN IF o.raised # "" THEN "done" ELSE "process_employee_data"
    ELSE IF fn = "process_employee_data"
    THEN IF o.raised # "" THEN "done" ELSE "fetch_requester_info"
    ELSE IF fn = "fetch_requester_info"
    THEN IF o.raised # "" THEN "done"                        \* lines 330-338
         ELSE IF Truthy(o.value[2]) THEN "fetch_manager_email"   \* line 318
         ELSE IF Truthy(o.value[1]) THEN "create_service_request"
         ELSE "done"
    ELSE IF fn = "fetch_manager_email"
    THEN IF Truthy(requester_id) THEN "create_service_request" ELSE "done"
    ELSE "done"

\* The end of a function: back to whoever invoked it.
Finish(fn, o) ==
    /\ t_pc' = IF t_entry = fn THEN "done" ELSE main_next(fn, o)
    /\ t_result' = IF t_entry = fn THEN o
                   ELSE IF main_next(fn, o) = "done" THEN MainEnded(o.raised)
                   ELSE t_result

\* Lines 291-293 (fetch_ticket_data, lines 64-70): outside every try block.
main_fetch_ticket ==
    /\ t_pc = "main"
    /\ \E status \in TStatuses, text \in Descriptions :
         /\ t_calls' = Append(t_calls, TCall("GET ticket", None, status, <<>>))
         /\ IF raise_for_status(status)
            THEN /\ t_pc' = "crashed"
                 /\ t_result' = Raised("HTTPError")
                 /\ UNCHANGED description_text
            ELSE /\ t_pc' = "main_extract"
                 /\ description_text' = text
                 /\ UNCHANGED t_result
    /\ UNCHANGED <<t_entry, employee_id, response_dict, employee_data, email,
                   requester_id, manager_id, user_type, manager_email,
                   it_deactivation_date, service_request_data>>
    /\ UNCHANGED <<cvars, nvars>>

\* Lines 295-300.
main_extract ==
    /\ t_pc = "main_extract"
    /\ LET o == extract_employee_id(description_text)
       IN IF o.raised # ""
          THEN /\ t_pc' = "done"
               /\ t_result' = MainEnded(o.raised)
               /\ UNCHANGED employee_id
          ELSE /\ t_pc' = "main_login"
               /\ employee_id' = o.value
               /\ UNCHANGED t_result
    /\ UNCHANGED <<t_entry, t_calls, description_text, response_dict, employee_data,
                   email, requester_id, manager_id, user_type, manager_email,
                   it_deactivation_date, service_request_data>>
    /\ UNCHANGED <<cvars, nvars>>

\* The name main calls at line 303.
login_name_in_main == "login_HRMS"

\* Lines 302-303, 350-351: the name is looked up among the module's names; a
\* name that is not bound raises NameError, which except Exception catches.
main_login ==
    /\ t_pc = "main_login"
    /\ IF login_name_in_main \in ModuleNames
       THEN /\ t_pc' = "login_hrms"
            /\ UNCHANGED t_result
       ELSE /\ t_pc' = "done"
            /\ t_result' = MainEnded("NameError")
    /\ UNCHANGED <<t_entry, t_calls, description_text, employee_id, response_dict,
                   employee_data, email, requester_id, manager_id, user_type,
                   manager_email, it_deactivation_date, service_request_data>>
    /\ UNCHANGED <<cvars, nvars>>

\* Lines 89-107.
login_hrms ==
    /\ t_pc = "login_hrms"
    /\ \E status \in TStatuses :
         /\ t_calls' = Append(t_calls, TCall("POST hrms login", None, status, <<>>))
         /\ Finish("login_hrms",
                   IF raise_for_status(status) THEN Raised("HTTPError")
                   ELSE Returned("token"))
    /\ UNCHANGED <<t_entry, description_text, employee_id, response_dict,
                   employee_data, email, requester_id, manager_id, user_type,
                   manager_email, it_deactivation_date, service_request_data>>
    /\ UNCHANGED <<cvars, nvars>>

\* Lines 109-131.
fetch_employee_data ==
    /\ t_pc = "fetch_employee_data"
    /\ \E r \in ReportResponses :
         /\ t_calls' = Append(t_calls, TCall("POST hrms report", employee_id, r.status, <<>>))
         /\ IF raise_for_status(r.status)
            THEN /\ Finish("fetch_employee_data", Raised("HTTPError"))
                 /\ UNCHANGED response_dict
            ELSE IF ~r.has_result
            THEN /\ Finish("fetch_employee_data", Raised("ValueError"))
                 /\ UNCHANGED response_dict
            ELSE /\ Finish("fetch_employee_data", Returned("response_dict"))
                 /\ response_dict' = r.rows
    /\ UNCHANGED <<t_entry, description_text, employee_id, employee_data, email,
                   requester_id, manager_id, user_type, manager_email,
                   it_deactivation_date, service_request_data>>
    /\ UNCHANGED <<cvars, nvars>>

\* Lines 155-161: the date fields of a row converted; raised when one of them
\* is not empty and convert_date_format raises.
convert_dates(row) ==
    IF \E i \in 1..Len(DateFields) :
          row[DateFields[i]] # <<>> /\ convert_date_format(row[DateFields[i]]).raised # ""
    THEN Raised("ValueError")
    ELSE Returned([f \in DOMAIN row |->
            IF f = "Primary Email" \/ row[f] = <<>> THEN row[f]
            ELSE convert_date_format(row[f]).value])

\* Lines 133-163, and lines 307-311 of main after it.
process_employee_data ==
    /\ t_pc = "process_employee_data"
    /\ LET o == convert_dates(response_dict[1])     \* line 153: the first row
       IN /\ Finish("process_employee_data",
                    IF o.raised # "" THEN o ELSE Returned("employee_data"))
          /\ IF o.raised # ""
             THEN UNCHANGED <<employee_data, email, it_deactivation_date>>
             ELSE /\ employee_data' = o.value
                  /\ IF t_entry = "main"
                     THEN /\ email' = o.value["Primary Email"]
                          /\ it_deactivation_date' = o.value["IT Deactivation Date"]
                     ELSE UNCHANGED <<email, it_deactivation_date>>
    /\ UNCHANGED <<t_entry, t_calls, description_text, employee_id, response_dict,
                   requester_id, manager_id, user_type, manager_email,
                   service_request_data>>
    /\ UNCHANGED <<cvars, nvars>>

\* The requesters' answer never taken for a hit.
requester_found_wrong_key(r) == FALSE

\* Lines 178, 184: the search among the requesters did not fail and its list
\* is not empty.
requester_found(r) == ~raise_for_status(r.status) /\ r.found # <<>>

\* Lines 178, 198: the same for the agents.
agent_found(r) == ~raise_for_status(r.status) /\ r.found # <<>>

\* Lines 165-193: the search among the requesters.
fetch_requester_info ==
    /\ t_pc = "fetch_requester_info"
    /\ \E r \in SearchResponses :
         /\ t_calls' = Append(t_calls,
                TCall("GET requesters?query=primary_email", lower(email), r.status, r.found))
         /\ IF requester_found(r)
            THEN /\ requester_id' = r.found[1].id
                 /\ manager_id' = r.found[1].reporting_manager_id
                 /\ user_type' = "requester"
                 /\ manager_email' = IF t_entry = "main" THEN None ELSE manager_email
                 /\ Finish("fetch_requester_info",
                        Returned(<<r.found[1].id, r.found[1].reporting_manager_id,
                                   "requester">>))
            ELSE /\ t_pc' = "search_agents"
                 /\ UNCHANGED <<t_result, requester_id, manager_id, user_type,
                                manager_email>>
    /\ UNCHANGED <<t_entry, description_text, employee_id, response_dict,
                   employee_data, email, it_deactivation_date, service_request_data>>
    /\ UNCHANGED <<cvars, nvars>>

\* Lines 195-211: the search among the agents, and lines 330-338 of main.
fetch_requester_info_agents ==
    /\ t_pc = "search_agents"
    /\ \E r \in SearchResponses :
         /\ t_calls' = Append(t_calls, TCall("GET agents?query=email", lower(email), r.status,
                                     r.found))
         /\ IF agent_found(r)
            THEN /\ requester_id' = r.found[1].id
                 /\ manager_id' = r.found[1].reporting_manager_id
                 /\ user_type' = "agent"
                 /\ manager_email' = IF t_entry = "main" THEN None ELSE manager_email
                 /\ Finish("fetch_requester_info",
                        Returned(<<r.found[1].id, r.found[1].reporting_manager_id,
                                   "agent">>))
            ELSE /\ Finish("fetch_requester_info", Raised("ValueError"))
                 /\ UNCHANGED <<requester_id, manager_id, user_type, manager_email>>
    /\ UNCHANGED <<t_entry, description_text, employee_id, response_dict,
                   employee_data, email, it_deactivation_date, service_request_data>>
    /\ UNCHANGED <<cvars, nvars>>

\* The agents asked after any failure of the requester lookup.
falls_back_to_agent_on_any_failure(status) == status # 200

\* Line 227: the requester lookup answered not found.
falls_back_to_agent(status) == status = 404

\* Lines 214-227, 239-241: the manager looked up as a requester; lines 320-326
\* of main catch the HTTPError.
fetch_manager_email ==
    /\ t_pc = "fetch_manager_email"
    /\ \E status \in ManagerStatuses :
         /\ t_calls' = Append(t_calls, TCall("GET requesters/id", manager_id, status, <<>>))
         /\ IF status = 200
            THEN /\ manager_email' = RequesterEmail(manager_id)
                 /\ Finish("fetch_manager_email", Returned(RequesterEmail(manager_id)))
            ELSE IF falls_back_to_agent(status)
            THEN /\ t_pc' = "manager_agent"
                 /\ UNCHANGED <<t_result, manager_email>>
            ELSE /\ manager_email' = None
                 /\ Finish("fetch_manager_email",
                        IF raise_for_status(status) THEN Raised("HTTPError")
                        ELSE Returned(None))
    /\ UNCHANGED <<t_entry, description_text, employee_id, response_dict,
                   employee_data, email, requester_id, manager_id, user_type,
                   it_deactivation_date, service_request_data>>
    /\ UNCHANGED <<cvars, nvars>>

\* Lines 228-238: the manager looked up as an agent.
fetch_manager_email_agent ==
    /\ t_pc = "manager_agent"
    /\ \E status \in ManagerStatuses :
         /\ t_calls' = Append(t_calls, TCall("GET agents/id", manager_id, status, <<>>))
         /\ IF status = 200
            THEN /\ manager_email' = AgentEmail(manager_id)
                 /\ Finish("fetch_manager_email", Returned(AgentEmail(manager_id)))
            ELSE /\ manager_email' = None
                 /\ Finish("fetch_manager_email",
                        IF raise_for_status(status) THEN Raised("HTTPError")
                        ELSE Returned(None))
    /\ UNCHANGED <<t_entry, description_text, employee_id, response_dict,
                   employee_data, email, requester_id, manager_id, user_type,
                   it_deactivation_date, service_request_data>>
    /\ UNCHANGED <<cvars, nvars>>

\* Lines 249-251.
default_email(m) == IF ~Truthy(m) THEN "noreply@hrms.com" ELSE m

\* Lines 244-282, and lines 341-349 of main.
create_service_request ==
    /\ t_pc = "create_service_request"
    /\ \E status \in TStatuses :
         /\ service_request_data' =
                [quantity |-> 1, email |-> default_email(manager_email),
                 date_of_change |-> it_deactivation_date,
                 untitled |-> requester_id,
                 employee_change_type |-> "Termination"]
         /\ t_calls' = Append(t_calls,
                TCall("POST service_catalog/items/95/place_request", requester_id, status, <<>>))
         /\ Finish("create_service_request",
                   IF raise_for_status(status) THEN Raised("HTTPError")
                   ELSE Returned("service_request.id"))
    /\ UNCHANGED <<t_entry, description_text, employee_id, response_dict,
                   employee_data, email, requester_id, manager_id, user_type,
                   manager_email, it_deactivation_date>>
    /\ UNCHANGED <<cvars, nvars>>

\* Nothing has run yet.
Unset ==
    /\ t_calls = <<>>
    /\ t_result = <<>>
    /\ description_text = <<>>
    /\ service_request_data = <<>>

\* The script is run (line 355), or one of its functions is called.
InitTermination ==
    /\ IdleContract
    /\ IdleNote
    /\ Unset
    /\ \/ /\ t_entry = "main" /\ t_pc = "main"
          /\ employee_id = None /\ response_dict = <<>> /\ employee_data = <<>>
          /\ email = None /\ requester_id = None /\ manager_id = None
          /\ user_type = None /\ manager_email = None /\ it_deactivation_date = <<>>
       \/ /\ t_entry = "login_hrms" /\ t_pc = "login_hrms"
          /\ employee_id = None /\ response_dict = <<>> /\ employee_data = <<>>
          /\ email = None /\ requester_id = None /\ manager_id = None
          /\ user_type = None /\ manager_email = None /\ it_deactivation_date = <<>>
       \/ /\ t_entry = "fetch_employee_data" /\ t_pc = "fetch_employee_data"
          /\ employee_id \in DigitRuns /\ response_dict = <<>> /\ employee_data = <<>>
          /\ email = None /\ requester_id = None /\ manager_id = None
          /\ user_type = None /\ manager_email = None /\ it_deactivation_date = <<>>
       \/ /\ t_entry = "process_employee_data" /\ t_pc = "process_employee_data"
          /\ employee_id = None /\ response_dict \in ReportBodies /\ employee_data = <<>>
          /\ email = None /\ requester_id = None /\ manager_id = None
          /\ user_type = None /\ manager_email = None /\ it_deactivation_date = <<>>
       \/ /\ t_entry = "fetch_requester_info" /\ t_pc = "fetch_requester_info"
          /\ employee_id = None /\ response_dict = <<>> /\ employee_data = <<>>
          /\ email \in Emails /\ requester_id = None /\ manager_id = None
          /\ user_type = None /\ manager_email = None /\ it_deactivation_date = <<>>
       \/ /\ t_entry = "fetch_manager_email" /\ t_pc = "fetch_manager_email"
          /\ employee_id = None /\ response_dict = <<>> /\ employee_data = <<>>
          /\ email = None /\ requester_id = None /\ manager_id \in {"900", "901"}
          /\ user_type = None /\ manager_email = None /\ it_deactivation_date = <<>>
       \/ /\ t_entry = "create_service_request" /\ t_pc = "create_service_request"
          /\ employee_id = None /\ response_dict = <<>> /\ employee_data = <<>>
          /\ email = None /\ requester_id \in {"501", "502"} /\ manager_id = None
          /\ user_type = None /\ manager_email \in {None, "", "boss@corp.com"}
          /\ it_deactivation_date \in {<<>>, convert_date_format(D_0314).value}

NextTermination ==
    \/ main_fetch_ticket
    \/ main_extract
    \/ main_login
    \/ login_hrms
    \/ fetch_employee_data
    \/ process_employee_data
    \/ fetch_requester_info
    \/ fetch_requester_info_agents
    \/ fetch_manager_email
    \/ fetch_manager_email_agent
    \/ create_service_request

SpecTermination == InitTermination /\ [][NextTermination]_vars

\* ------------------------------------------------ term_ticket_assets_note.py

\* The assets the ticket is linked to on the server before the run, by
\* display id.
TicketAssetsBefore == { {}, {"901", "902"} }

\* Every display id a ticket may be linked to before the run.
TicketAssetsBeforeIds == UNION TicketAssetsBefore

\* The asset filter returns at most MaxNoteAssets assets.
MaxNoteAssets == 2

\* The n-th asset of GET /assets?filter=...; its tag is a label of its own or
\* repeats the display id.
NoteAssetsNumbered(n) ==
    { [display_id |-> ToString(n), name |-> "Laptop " \o ToString(n),
       asset_tag |-> t, asset_type_id |-> "7"] :
      t \in {"TAG-" \o ToString(n), ToString(n)} }

RECURSIVE NoteAssetLists(_)
NoteAssetLists(n) ==
    IF n = 0 THEN { <<>> }
    ELSE NoteAssetLists(n - 1) \cup
         { Append(l, a) : l \in { x \in NoteAssetLists(n - 1) : Len(x) = n - 1 },
                          a \in NoteAssetsNumbered(n) }

\* The answers of GET /tickets/{id}/requested_items: no requested_items key,
\* an empty list, or items whose first carries the field untitled.
RequestedItemsResponses ==
    { [has_key |-> FALSE, items |-> <<>>], [has_key |-> TRUE, items |-> <<>>] } \cup
    { [has_key |-> TRUE, items |-> <<[untitled |-> u]>>] : u \in {None, "", "501"} } \cup
    { [has_key |-> TRUE, items |-> <<[untitled |-> "501"], [untitled |-> "502"]>>] }

\* The answers of GET /assets?filter="user_id:..": an error body holds no
\* assets key.
AssetsResponses ==
    { [status |-> s, assets |-> <<>>] : s \in TStatuses \ {200} } \cup
    { [status |-> 200, assets |-> l] : l \in NoteAssetLists(MaxNoteAssets) }

InitNote ==
    /\ IdleContract
    /\ IdleTermination
    /\ n_pc = "main"
    /\ n_calls = <<>>
    /\ employee_name = None
    /\ assets = <<>>
    /\ assets_list = <<>>
    /\ html_body = None
    /\ payload = <<>>
    /\ ticket_assets \in TicketAssetsBefore

NCall(name, status, body) == [call |-> name, status |-> status, body |-> body]

\* Lines 108-114, 137-140 (fetch_requested_items, lines 57-61).
note_fetch_requested_items ==
    /\ n_pc = "main"
    /\ \E r \in RequestedItemsResponses :
         /\ n_calls' = Append(n_calls, NCall("GET requested_items", 200, r.items))
         /\ IF r.has_key /\ r.items # <<>>
            THEN /\ employee_name' = r.items[1].untitled
                 /\ n_pc' = IF Truthy(r.items[1].untitled) THEN "fetch_assets" ELSE "done"
            ELSE /\ n_pc' = "done"
                 /\ UNCHANGED employee_name
    /\ UNCHANGED <<assets, assets_list, html_body, payload, ticket_assets>>
    /\ UNCHANGED <<cvars, tvars>>

\* Lines 118-121 (fetch_assets, lines 63-67).
note_fetch_assets ==
    /\ n_pc = "fetch_assets"
    /\ \E r \in AssetsResponses :
         /\ n_calls' = Append(n_calls, NCall("GET assets?filter=user_id", r.status, r.assets))
         /\ assets' = r.assets
         /\ assets_list' = <<>>
         /\ n_pc' = IF r.assets = <<>> THEN "note" ELSE "asset_types"
    /\ UNCHANGED <<employee_name, html_body, payload, ticket_assets>>
    /\ UNCHANGED <<cvars, tvars>>

\* Lines 121-127 (get_asset_type, lines 69-73): one turn of the loop; an answer
\* without asset_type raises KeyError at line 125, which nothing catches.
note_get_asset_type ==
    /\ n_pc = "asset_types"
    /\ LET asset == assets[Len(assets_list) + 1]
       IN \E status \in TStatuses :
            /\ n_calls' = Append(n_calls, NCall("GET asset_types/id", status, <<>>))
            /\ IF status = 200
               THEN /\ assets_list' = Append(assets_list,
                          [name |-> asset.name,
                           asset_type |-> [name |-> "Type-" \o asset.asset_type_id],
                           asset_tag |-> asset.asset_tag])
                    /\ n_pc' = IF Len(assets_list) + 1 = Len(assets) THEN "note"
                               ELSE "asset_types"
               ELSE /\ n_pc' = "crashed"
                    /\ UNCHANGED assets_list
    /\ UNCHANGED <<employee_name, assets, html_body, payload, ticket_assets>>
    /\ UNCHANGED <<cvars, tvars>>

RECURSIVE assets_html(_)
\* Lines 77-79.
assets_html(entries) ==
    IF entries = <<>> THEN ""
    ELSE "<li>Name: " \o Head(entries).name \o ", Type of Asset: "
         \o Head(entries).asset_type.name \o ", Asset Tag: "
         \o Head(entries).asset_tag \o "</li>" \o assets_html(Tail(entries))

\* Lines 75-80.
create_html_body(entries) ==
    "<p>Assets to be collected:</p><ul>" \o assets_html(entries) \o "</ul>"

\* Lines 129-132 (add_note_to_ticket, lines 82-90).
note_add_note_to_ticket ==
    /\ n_pc = "note"
    /\ \E status \in {201, 404, 500} :
         /\ html_body' = create_html_body(assets_list)
         /\ n_calls' = Append(n_calls, NCall("POST notes", status, <<>>))
         /\ n_pc' = "put"
    /\ UNCHANGED <<employee_name, assets, assets_list, payload, ticket_assets>>
    /\ UNCHANGED <<cvars, tvars>>

\* Lines 95-99: the body of the PUT.
assets_payload(entries) ==
    [assets |-> [i \in 1..Len(entries) |-> [display_id |-> entries[i].asset_tag]]]

\* Lines 135-136 (update_ticket_with_assets, lines 92-101).  On a 200 the
\* server replaces the ticket's asset list by the one sent.
note_update_ticket_with_assets ==
    /\ n_pc = "put"
    /\ \E status \in TStatuses :
         /\ payload' = assets_payload(assets_list)
         /\ n_calls' = Append(n_calls, NCall("PUT ticket", status, <<>>))
         /\ ticket_assets' =
                IF status = 200
                THEN { assets_payload(assets_list).assets[i].display_id :
                       i \in 1..Len(assets_list) }
                ELSE ticket_assets
         /\ n_pc' = "done"
    /\ UNCHANGED <<employee_name, assets, assets_list, html_body>>
    /\ UNCHANGED <<cvars, tvars>>

NextNote ==
    \/ note_fetch_requested_items
    \/ note_fetch_assets
    \/ note_get_asset_type
    \/ note_add_note_to_ticket
    \/ note_update_ticket_with_assets

SpecNote == InitNote /\ [][NextNote]_vars

\* ------------------------------------------- properties of contract_assets.py

\* The calls of the pagination loop, in order.
PageCalls == SelectSeq(c_calls, LAMBDA c : c.call = "GET associated-assets")

\* The GET-by-id calls of one endpoint for one id, in order.
GetCalls(name, id) == SelectSeq(c_calls, LAMBDA c : c.call = name /\ c.id = id)

PutCalls == SelectSeq(c_calls, LAMBDA c : c.call = "PUT ticket")

RECURSIVE ConcatPages(_, _)
\* The arrays of the first n page calls, concatenated in page order.
ConcatPages(P, n) == IF n = 0 THEN <<>> ELSE ConcatPages(P, n - 1) \o P[n].assets

\* The three resolvers: endpoint, foreign key, CSV column, ids.
Resolvers ==
    { [call |-> "GET department", field |-> "department_id", col |-> 4, ids |-> DeptIds],
      [call |-> "GET location", field |-> "location_id", col |-> 5, ids |-> LocIds],
      [call |-> "GET requester", field |-> "user_id", col |-> 6, ids |-> UserIds] }

CacheOf(k) ==
    IF k.call = "GET department" THEN dept_cache
    ELSE IF k.call = "GET location" THEN location_cache
    ELSE requester_cache

\* The number of asset rows in the CSV.
Written == IF csv_rows = <<>> THEN 0 ELSE Len(csv_rows) - 1

\* The number of assets the enrichment loop has been through (a run that
\* crashed did so in the asset at idx).
Processed == IF c_pc = "crashed" THEN idx ELSE Written

\* The assets among the first n that carry id as foreign key `field`.
Refs(field, id, n) == { j \in 1..n : all_assets[j][field] = id }

C3_PaginationStopsAtFirstBadPage ==
    LET P == PageCalls
        n == Len(PageCalls)
    IN /\ \A i \in 1..n : P[i].page = i
       /\ c_pc = "fetch" =>
            /\ \A i \in 1..n : P[i].status = 200 /\ P[i].assets # <<>>
            /\ all_assets = ConcatPages(P, n)
            /\ page = n + 1
       /\ c_pc # "fetch" =>
            /\ n >= 1
            /\ P[n].status # 200 \/ P[n].assets = <<>>
            /\ \A i \in 1..(n - 1) : P[i].status = 200 /\ P[i].assets # <<>>
            /\ all_assets = ConcatPages(P, n - 1)
       /\ c_pc = "crashed" => c_calls[Len(c_calls)].call # "GET associated-assets"

C3_Witness ==
    /\ c_pc = "csv"
    /\ Len(PageCalls) = 2
    /\ PageCalls[2].status = 500
    /\ Len(all_assets) = MaxPageLen

\* C4 as amended: a page shorter than per_page does not stop the loop; with
\* pages of per_page and of ScenarioAssets - per_page assets the run makes three
\* fetch calls, the third answered with an empty array, and collects all
\* ScenarioAssets records.
C4_ShortPageIsFollowedByAnotherFetch ==
    LET P == PageCalls
    IN /\ \A i \in 1..Len(P) :
            (P[i].status = 200 /\ P[i].assets # <<>> /\ c_pc # "fetch") => i < Len(P)
       /\ c_pc # "fetch" =>
            /\ Len(P) = 3
            /\ Len(P[1].assets) = per_page
            /\ Len(P[2].assets) = ScenarioAssets - per_page
            /\ P[3].status = 200 /\ P[3].assets = <<>>
            /\ Len(all_assets) = ScenarioAssets

C4_Witness ==
    /\ c_pc = "done"
    /\ Len(PageCalls) = 3
    /\ Len(PageCalls[2].assets) < per_page
    /\ Written = ScenarioAssets

\* C4 as claimed: after a page with fewer than per_page records no further
\* page is requested, so the two-page scenario makes exactly two fetch calls.
C4_Original ==
    LET P == PageCalls
    IN /\ \A i \in 1..Len(P) :
            (P[i].status = 200 /\ Len(P[i].assets) < per_page) => i = Len(P)
       /\ Len(P) <= 2

\* C5 as amended: an id referenced by an asset the loop has been through is the
\* subject of at least one GET and of at most one GET per asset referencing it;
\* no GET is issued for an id after a 200 answer for it (an id whose first GET
\* returns 200 is fetched exactly once), and an id whose GETs all failed has
\* been fetched once for every asset that references it.
C5_OneSuccessfulGetPerId ==
    \A k \in Resolvers : \A id \in k.ids :
      LET G == GetCalls(k.call, id)
          done_refs == Cardinality(Refs(k.field, id, Processed))
      IN /\ done_refs > 0 => Len(G) >= 1
         /\ Len(G) <= done_refs
         /\ \A i \in 1..(Len(G) - 1) : G[i].status # 200
         /\ (\A i \in 1..Len(G) : G[i].status # 200) => Len(G) = done_refs
         /\ (Len(G) >= 1 /\ G[1].status = 200) => Len(G) = 1

C5_Witness ==
    /\ c_pc = "done"
    /\ \E id \in DeptIds :
         /\ Cardinality(Refs("department_id", id, Len(all_assets))) = 2
         /\ Len(GetCalls("GET department", id)) = 1

\* C5 as claimed: at the end of the run every referenced id has been the
\* subject of exactly one GET, whatever the statuses.
C5_Original ==
    c_pc = "done" =>
      \A k \in Resolvers : \A id \in k.ids :
        Refs(k.field, id, Len(all_assets)) # {} => Len(GetCalls(k.call, id)) = 1

\* C6: a resolver that receives a non-200 answer returns None, raises nothing
\* and adds nothing to its cache, so the next resolve of the id issues the GET
\* again; a cache entry exists only after a 200 answer for its id.
C6_FailedLookupIsNotCached ==
    /\ \A k \in Resolvers : \A id \in k.ids :
         LET G == GetCalls(k.call, id)
         IN /\ id \in DOMAIN CacheOf(k) => \E i \in 1..Len(G) : G[i].status = 200
            /\ (\A i \in 1..Len(G) : G[i].status # 200) =>
                 /\ id \notin DOMAIN CacheOf(k)
                 /\ Len(G) = Cardinality(Refs(k.field, id, Processed))
            /\ \A j \in 1..Written :
                 LET r == Cardinality(Refs(k.field, id, j))
                 IN (all_assets[j][k.field] = id /\ r <= Len(G) /\ G[r].status # 200)
                      => csv_rows[j + 1][k.col] = None
    /\ c_pc = "crashed" => c_calls[Len(c_calls)].status = 200

C6_Witness ==
    \E k \in Resolvers : \E id \in k.ids :
      LET G == GetCalls(k.call, id)
      IN /\ Len(G) = 2 /\ G[1].status # 200 /\ G[2].status = 200
         /\ id \in DOMAIN CacheOf(k)
         /\ Written = 2

CountCalls(calls, name) == Len(SelectSeq(calls, LAMBDA c : c.call = name))

\* C7: an asset whose department_id, location_id or user_id is null causes no
\* GET to that by-id endpoint and leaves that cache as it is, and its CSV row
\* holds None in that column.
C7_NullForeignKeyIsNotResolved ==
    /\ [](\A k \in Resolvers :
            /\ \A i \in 1..Len(c_calls) : c_calls[i].call = k.call => Truthy(c_calls[i].id)
            /\ \A j \in 1..Written :
                 ~Truthy(all_assets[j][k.field]) => csv_rows[j + 1][k.col] = None)
    /\ [][c_pc = "rows" =>
            /\ ~Truthy(all_assets[idx].department_id) =>
                 /\ dept_cache' = dept_cache
                 /\ CountCalls(c_calls', "GET department") = CountCalls(c_calls, "GET department")
            /\ ~Truthy(all_assets[idx].location_id) =>
                 /\ location_cache' = location_cache
                 /\ CountCalls(c_calls', "GET location") = CountCalls(c_calls, "GET location")
            /\ ~Truthy(all_assets[idx].user_id) =>
                 /\ requester_cache' = requester_cache
                 /\ CountCalls(c_calls', "GET requester") = CountCalls(c_calls, "GET requester")
         ]_vars

C7_Witness ==
    \E j \in 1..Written :
      /\ ~Truthy(all_assets[j].department_id)
      /\ Truthy(all_assets[j].location_id)
      /\ csv_rows[j + 1][4] = None
      /\ csv_rows[j + 1][5] # None
      /\ CountCalls(c_calls, "GET department") = 0

\* What C14 says of a run that is over.
PushedOnceWhenOver ==
    /\ Len(PutCalls) = 1
    /\ c_calls[Len(c_calls)].call = "PUT ticket"
    /\ Len(csv_rows) = Len(all_assets) + 1
    /\ put_fields.attachment = csv_rows
    /\ Len(PageCalls) = 1 => csv_rows = <<Header>>
    /\ ~csv_exists <=> (~PutCalls[1].raised /\ PutCalls[1].status \in {200, 201})

\* C14: every run attempts the ticket PUT exactly once, as its last call, with
\* the complete CSV (the header and one row per asset fetched; the header
\* alone when the first page was not a 200 or was empty), and deletes the file
\* exactly on a 200 or 201; no PUT is made before the run's last step.
C14_PushAttemptedOnceOnEveryRun ==
    /\ Len(PutCalls) <= 1
    /\ PutCalls # <<>> => c_pc = "done"
    /\ c_pc \in {"done", "crashed"} => PushedOnceWhenOver

\* ------------------------------- properties of freshservice_hrms_termination.py

TCalls(name) == SelectSeq(t_calls, LAMBDA c : c.call = name)

\* The run of main is over.
MainOver == t_entry = "main" /\ t_pc \in {"done", "crashed"}

\* The conditions of an untroubled run of main: the description names an
\* employee id, every HTTP call made answered 200, the report fetched holds a
\* first row whose dates convert, and a search made found the employee.
UntroubledRun ==
    /\ t_calls # <<>>
    /\ \A i \in 1..Len(t_calls) : t_calls[i].status = 200
    /\ extract_employee_id(description_text).raised = ""
    /\ TCalls("POST hrms report") # <<>> =>
           /\ response_dict # <<>>
           /\ convert_dates(response_dict[1]).raised = ""
    /\ TCalls("GET requesters?query=primary_email") # <<>> =>
           \E i \in 1..Len(t_calls) : t_calls[i].found # <<>>

\* C1: a run of main whose ticket description names an employee id, whose
\* HTTP calls all succeed, whose report row has well-formed dates and whose
\* employee is found has, when it ends, logged in to HRMS, fetched the report,
\* searched the employee and placed exactly one request for item 95.
C1_MainPlacesOneRequest ==
    (MainOver /\ UntroubledRun) =>
        /\ Len(TCalls("POST hrms login")) = 1
        /\ Len(TCalls("POST hrms report")) = 1
        /\ Len(TCalls("GET requesters?query=primary_email")) = 1
        /\ Len(TCalls("POST service_catalog/items/95/place_request")) = 1

\* The call of fetch_requester_info is over and handed back a value.
RequesterInfoReturned ==
    t_entry = "fetch_requester_info" /\ t_pc = "done" /\ t_result.raised = ""

\* C8: the search among the agents follows a search among the requesters that
\* failed or found nobody; after a search among the requesters that found
\* somebody no agent search is made, and fetch_requester_info returns the
\* first requester's id and reporting_manager_id with the type "requester".
C8_RequestersBeforeAgents ==
    /\ \A i \in 1..Len(t_calls) :
         t_calls[i].call = "GET agents?query=email" =>
            /\ i > 1
            /\ t_calls[i - 1].call = "GET requesters?query=primary_email"
            /\ t_calls[i - 1].arg = t_calls[i].arg
            /\ raise_for_status(t_calls[i - 1].status) \/ t_calls[i - 1].found = <<>>
    /\ \A i \in 1..Len(t_calls) :
         ( /\ t_calls[i].call = "GET requesters?query=primary_email"
           /\ ~raise_for_status(t_calls[i].status)
           /\ t_calls[i].found # <<>> ) =>
            /\ TCalls("GET agents?query=email") = <<>>
            /\ t_entry = "fetch_requester_info" =>
                  /\ RequesterInfoReturned
                  /\ t_result.value = <<t_calls[i].found[1].id,
                                        t_calls[i].found[1].reporting_manager_id,
                                        "requester">>

\* Two requesters found: the first one is returned and the agents are not asked.
C8_Witness ==
    /\ RequesterInfoReturned
    /\ Len(t_calls) = 1
    /\ Len(t_calls[1].found) = 2
    /\ t_calls[1].found[1] # t_calls[1].found[2]
    /\ t_result.value = <<t_calls[1].found[1].id, "900", "requester">>

\* The call of fetch_manager_email is over and handed back a value.
ManagerEmailReturned ==
    t_entry = "fetch_manager_email" /\ t_pc = "done" /\ t_result.raised = ""

\* C9: GET /agents/{id} follows a GET /requesters/{id} of the same id that
\* answered 404, and its 200 makes fetch_manager_email return the agent's
\* email; a requester answer of 200 makes it return the requester's
\* primary_email with no agent call; any other requester status is followed by
\* no agent call.
C9_AgentOnlyAfterRequester404 ==
    /\ \A i \in 1..Len(t_calls) :
         t_calls[i].call = "GET agents/id" =>
            /\ i > 1
            /\ t_calls[i - 1].call = "GET requesters/id"
            /\ t_calls[i - 1].arg = t_calls[i].arg
            /\ t_calls[i - 1].status = 404
    /\ \A i \in 1..Len(t_calls) :
         t_calls[i].call = "GET requesters/id" =>
            /\ i = 1 \/ t_calls[i - 1].call # "GET agents/id"
            /\ t_calls[i].status # 404 => TCalls("GET agents/id") = <<>>
            /\ (t_calls[i].status = 200 /\ t_entry = "fetch_manager_email") =>
                  /\ ManagerEmailReturned
                  /\ t_result.value = RequesterEmail(t_calls[i].arg)
            /\ (t_calls[i].status = 404 /\ t_pc # "manager_agent") =>
                  Len(TCalls("GET agents/id")) = 1
    /\ \A i \in 1..Len(t_calls) :
         ( /\ t_calls[i].call = "GET agents/id"
           /\ t_calls[i].status = 200
           /\ t_entry = "fetch_manager_email" ) =>
            /\ ManagerEmailReturned
            /\ t_result.value = AgentEmail(t_calls[i].arg)

\* Not found as a requester, found as an agent: the agent's email is returned.
C9_Witness ==
    /\ ManagerEmailReturned
    /\ Len(t_calls) = 2
    /\ t_calls[1].call = "GET requesters/id" /\ t_calls[1].status = 404
    /\ t_calls[2].call = "GET agents/id" /\ t_calls[2].status = 200
    /\ t_result.value = AgentEmail(manager_id)
    /\ t_result.value # RequesterEmail(manager_id)

NoRequestPlaced == TCalls("POST service_catalog/items/95/place_request") = <<>>

\* A date field of the row is not empty and does not convert.
MalformedDate(row) ==
    \E i \in 1..Len(DateFields) :
        row[DateFields[i]] # <<>> /\ convert_date_format(row[DateFields[i]]).raised # ""

PlacedEmailIsSet ==
    ~NoRequestPlaced => service_request_data.email \notin {None, ""}

\* C13: a run of main in which nothing fails and no manager email was
\* obtained (manager_email is null) has, when it ends, placed its request with
\* the email field "noreply@hrms.com"; the email field of a request placed is
\* never null or empty.
C13_MissingManagerEmailStillFiles ==
    /\ (MainOver /\ UntroubledRun /\ ~Truthy(manager_email)) =>
          /\ Len(TCalls("POST service_catalog/items/95/place_request")) = 1
          /\ service_request_data.email = "noreply@hrms.com"
    /\ PlacedEmailIsSet

\* ---------------------------------- properties of term_ticket_assets_note.py

NCalls(name) == SelectSeq(n_calls, LAMBDA c : c.call = name)

\* C10: the run that reaches update_ticket_with_assets issues one PUT whose
\* assets field holds one stub per assembled entry, in entry order, each
\* carrying the display id of that entry's asset, and none of the ticket's
\* previous assets unless it is among the entries.
C10_PayloadCarriesDisplayIds ==
    (n_pc = "done" /\ NCalls("PUT ticket") # <<>>) =>
        /\ Len(NCalls("PUT ticket")) = 1
        /\ Len(payload.assets) = Len(assets_list)
        /\ \A i \in 1..Len(assets_list) :
              /\ DOMAIN payload.assets[i] = {"display_id"}
              /\ payload.assets[i].display_id = assets[i].display_id
        /\ \A i \in 1..Len(payload.assets) :
              payload.assets[i].display_id \in TicketAssetsBeforeIds =>
                  \E j \in 1..Len(assets) :
                      assets[j].display_id = payload.assets[i].display_id

\* No step of any script is made a second time: the single calls of the note
\* and termination scripts are made at most once and one asset type is asked
\* per asset; the contract script asks every page once, makes one PUT, and
\* asks an id at most once per asset that refers to it.
NoStepRepeated ==
    /\ \A i, j \in 1..Len(n_calls) :
          (i < j /\ n_calls[i].call = n_calls[j].call) =>
              n_calls[i].call = "GET asset_types/id"
    /\ Len(NCalls("GET asset_types/id")) <= Len(assets)
    /\ \A i, j \in 1..Len(t_calls) : i < j => t_calls[i].call # t_calls[j].call
    /\ \A i, j \in 1..Len(PageCalls) : i < j => PageCalls[i].page # PageCalls[j].page
    /\ Len(PutCalls) <= 1
    /\ \A k \in Resolvers : \A id \in k.ids :
          Len(GetCalls(k.call, id)) <= Cardinality(Refs(k.field, id, Len(all_assets)))

\* C12: after a note POST that did not answer 200 or 201 the run of the note
\* script makes no ticket PUT, and no script makes the call of a step a second
\* time.
C12_FailedNoteEndsTheRun ==
    /\ \A i \in 1..Len(n_calls) :
          (n_calls[i].call = "POST notes" /\ n_calls[i].status \notin {200, 201}) =>
              \A j \in (i + 1)..Len(n_calls) : n_calls[j].call # "PUT ticket"
    /\ NoStepRepeated

\* The run of the note script is over after an asset query that returned no
\* assets.
OverWithNoAssets ==
    /\ n_pc = "done"
    /\ Len(n_calls) >= 2
    /\ n_calls[2].call = "GET assets?filter=user_id"
    /\ n_calls[2].body = <<>>

\* The first requested item is missing or its untitled reference is empty.
NoEmployeeReference ==
    /\ n_calls # <<>>
    /\ \/ n_calls[1].body = <<>>
       \/ n_calls[1].body[1].untitled \in {None, ""}

\* The PUT with no stubs, answered 200, leaves the ticket without assets; any
\* other answer leaves the ticket's assets as they were.
EmptyPutClearsTicket ==
    (n_pc = "put" /\ assets_list = <<>> /\ n_pc' = "done") =>
        /\ payload' = [assets |-> <<>>]
        /\ ticket_assets' = IF n_calls'[Len(n_calls')].status = 200 THEN {}
                            ELSE ticket_assets

\* C15: after an asset query that returned no assets the run posts the note
\* with an empty list and then issues the PUT with assets [], which on a 200
\* clears the ticket's assets; when requested_items is absent or empty or the
\* first item's untitled reference is empty the run makes neither the note
\* POST nor the PUT.
C15_EmptyAssetsStillPostAndPut ==
    /\ [](/\ OverWithNoAssets =>
               /\ Len(n_calls) = 4
               /\ n_calls[1].body[1].untitled \notin {None, ""}
               /\ n_calls[3].call = "POST notes"
               /\ html_body = "<p>Assets to be collected:</p><ul></ul>"
               /\ n_calls[4].call = "PUT ticket"
               /\ payload = [assets |-> <<>>]
               /\ n_calls[4].status = 200 => ticket_assets = {}
          /\ NoEmployeeReference =>
               /\ n_pc = "done"
               /\ Len(n_calls) = 1
               /\ NCalls("POST notes") = <<>> /\ NCalls("PUT ticket") = <<>>)
    /\ [][EmptyPutClearsTicket]_vars

\* No assets found for the employee: the note is posted and the empty PUT,
\* answered 200, has cleared the ticket.
C15_Witness ==
    /\ OverWithNoAssets
    /\ n_calls[2].status = 200
    /\ n_calls[3].call = "POST notes" /\ n_calls[3].status = 201
    /\ n_calls[4].call = "PUT ticket" /\ n_calls[4].status = 200
    /\ payload.assets = <<>>
    /\ ticket_assets = {}

Init == InitContract \/ InitTermination \/ InitNote
Next == NextContract \/ NextTermination \/ NextNote
Spec == Init /\ [][Next]_vars
====
